---- MODULE Spec2Model ----
(***************************************************************************)
(* Model of Extensions::CFTool (src/src/Extensions/CFTool.cpp): the        *)
(* browser-based Codeforces submission helper of CP Editor.                *)
(*                                                                         *)
(* Strings (URLs, file contents, captured identifiers, headlines) are      *)
(* sequences of tokens.  A token is either one punctuation character       *)
(* (":", "/", ".", "?", "#", "_", " "), one digit, one letter, or a whole   *)
(* alphanumeric word ("contest", "problem", ...).  Every literal of the    *)
(* code's patterns is delimited by punctuation, so matching on tokens      *)
(* agrees with matching on characters.                                     *)
(***************************************************************************)
EXTENDS Integers, Sequences, FiniteSets, TLC

Digit == {"1", "4"}
Letter == {"A", "C"}
Word == {"https", "http", "www", "codeforces", "com", "example", "contest",
         "gym", "group", "problemset", "problem", "submit"}
\* [A-Za-z0-9]
Alnum == Digit \cup Letter \cup Word
\* \w
WordChar == Alnum \cup {"_"}
\* QChar::isSpace
Space == {" "}

(***************************************************************************)
(* QString helpers                                                         *)
(***************************************************************************)
StartsAt(s, i, pat) ==
    /\ i >= 1
    /\ i + Len(pat) - 1 <= Len(s)
    /\ SubSeq(s, i, i + Len(pat) - 1) = pat

\* QString::contains(pat)
Contains(s, pat) == \E i \in 1..Len(s) : StartsAt(s, i, pat)

\* QString::indexOf(pat), 1-based, 0 when absent
IndexOf(s, pat) ==
    IF Contains(s, pat)
    THEN CHOOSE i \in 1..Len(s) :
            StartsAt(s, i, pat) /\ \A m \in 1..(i - 1) : ~StartsAt(s, m, pat)
    ELSE 0

\* QString::split(sep), empty parts kept
RECURSIVE Split(_, _)
Split(s, sep) ==
    LET i == IndexOf(s, sep)
    IN  IF i = 0 THEN <<s>>
        ELSE <<SubSeq(s, 1, i - 1)>> \o Split(SubSeq(s, i + Len(sep), Len(s)), sep)

\* index just past the greedy run of tokens of class C that starts at i
RunEnd(s, i, C) ==
    CHOOSE k \in i..(Len(s) + 1) :
        /\ \A m \in i..(k - 1) : s[m] \in C
        /\ (k = Len(s) + 1 \/ s[k] \notin C)

\* QString::trimmed()
RECURSIVE TrimLeft(_)
TrimLeft(s) ==
    IF s # <<>> /\ Head(s) \in Space THEN TrimLeft(Tail(s)) ELSE s

RECURSIVE TrimRight(_)
TrimRight(s) ==
    IF s # <<>> /\ s[Len(s)] \in Space THEN TrimRight(SubSeq(s, 1, Len(s) - 1)) ELSE s

trimmed(s) == TrimRight(TrimLeft(s))

(***************************************************************************)
(* The three patterns of parseCfUrl.  Each pattern starts with ".*" and is *)
(* searched unanchored, so a match exists iff the rest of the pattern      *)
(* matches at some position, and the greedy ".*" selects the last one.     *)
(* A match is [ok, c1, c2] with the two captured groups.                   *)
(***************************************************************************)
NoMatch == [ok |-> FALSE, c1 |-> <<>>, c2 |-> <<>>]

HostPrefix == <<":", "/", "/", "codeforces", ".", "com", "/">>
ProblemSep == <<"/", "problem", "/">>

\* variant of IdProblemCodeAt: the code is one character, [A-Za-z0-9]
IdProblemCodeAt_OneChar(s, d0) ==
    IF d0 > Len(s) THEN NoMatch
    ELSE LET d1 == RunEnd(s, d0, Digit)
             c0 == d1 + Len(ProblemSep)
         IN  IF d1 > d0 /\ StartsAt(s, d1, ProblemSep) /\ c0 <= Len(s)
                /\ s[c0] \in Alnum
             THEN [ok |-> TRUE, c1 |-> SubSeq(s, d0, d1 - 1),
                   c2 |-> SubSeq(s, c0, c0)]
             ELSE NoMatch

\* (\d+)/problem/([A-Za-z0-9]+) at position d0
IdProblemCodeAt(s, d0) ==
    IF d0 > Len(s) THEN NoMatch
    ELSE LET d1 == RunEnd(s, d0, Digit)
             c0 == d1 + Len(ProblemSep)
         IN  IF d1 > d0 /\ StartsAt(s, d1, ProblemSep) /\ c0 <= Len(s)
                /\ RunEnd(s, c0, Alnum) > c0
             THEN [ok |-> TRUE, c1 |-> SubSeq(s, d0, d1 - 1),
                   c2 |-> SubSeq(s, c0, RunEnd(s, c0, Alnum) - 1)]
             ELSE NoMatch

\* ://codeforces\.com/(?:gym|contest)/(\d+)/problem/([A-Za-z0-9]+) at j
ContestAt(s, j) ==
    LET k == j + Len(HostPrefix)
    IN  IF /\ StartsAt(s, j, HostPrefix)
           /\ k + 1 <= Len(s)
           /\ s[k] \in {"gym", "contest"}
           /\ s[k + 1] = "/"
        THEN IdProblemCodeAt(s, k + 2)
        ELSE NoMatch

\* ://codeforces\.com/problemset/problem/(\d+)/([A-Za-z0-9]+) at j
ProblemsetTail(s, d0) ==
    IF d0 > Len(s) THEN NoMatch
    ELSE LET d1 == RunEnd(s, d0, Digit)
         IN  IF d1 > d0 /\ d1 + 1 <= Len(s) /\ s[d1] = "/"
                /\ RunEnd(s, d1 + 1, Alnum) > d1 + 1
             THEN [ok |-> TRUE, c1 |-> SubSeq(s, d0, d1 - 1),
                   c2 |-> SubSeq(s, d1 + 1, RunEnd(s, d1 + 1, Alnum) - 1)]
             ELSE NoMatch

ProblemsetPath == <<"problemset", "/", "problem", "/">>

ProblemsetAt(s, j) ==
    LET pat == HostPrefix \o ProblemsetPath
    IN  IF StartsAt(s, j, pat) THEN ProblemsetTail(s, j + Len(pat)) ELSE NoMatch

\* ://codeforces\.com/group/\w+/contest/(\d+)/problem/([A-Za-z0-9]+) at j
GroupAt(s, j) ==
    LET pat == HostPrefix \o <<"group", "/">>
        g0 == j + Len(pat)
    IN  IF StartsAt(s, j, pat) /\ g0 <= Len(s)
        THEN LET g1 == RunEnd(s, g0, WordChar)
                 mid == <<"/", "contest", "/">>
             IN  IF g1 > g0 /\ StartsAt(s, g1, mid)
                 THEN IdProblemCodeAt(s, g1 + Len(mid))
                 ELSE NoMatch
        ELSE NoMatch

\* the position a pattern that starts with ".*" matches at: the last one
Last(hits) == CHOOSE j \in hits : \A m \in hits : m <= j

\* the position an unanchored pattern matches at: the first one
First(hits) == CHOOSE j \in hits : \A m \in hits : j <= m

\* QRegularExpression(...).match(s) for the three patterns of parseCfUrl
ContestMatch(s) ==
    LET hits == {j \in 1..Len(s) : ContestAt(s, j).ok}
    IN  IF hits = {} THEN NoMatch ELSE ContestAt(s, Last(hits))

ProblemsetMatch(s) ==
    LET hits == {j \in 1..Len(s) : ProblemsetAt(s, j).ok}
    IN  IF hits = {} THEN NoMatch ELSE ProblemsetAt(s, Last(hits))

GroupMatch(s) ==
    LET hits == {j \in 1..Len(s) : GroupAt(s, j).ok}
    IN  IF hits = {} THEN NoMatch ELSE GroupAt(s, Last(hits))

(***************************************************************************)
(* CFTool::parseCfUrl.  contestId and problemCode are reference            *)
(* parameters: they are assigned only on a match.                          *)
(***************************************************************************)
parseCfUrl(url, contestId, code) ==
    LET m1 == ContestMatch(url)
        m2 == ProblemsetMatch(url)
        m3 == GroupMatch(url)
    IN  IF m1.ok THEN [ok |-> TRUE, contestId |-> m1.c1, problemCode |-> m1.c2]
        ELSE IF m2.ok THEN [ok |-> TRUE, contestId |-> m2.c1, problemCode |-> m2.c2]
        ELSE IF m3.ok THEN [ok |-> TRUE, contestId |-> m3.c1, problemCode |-> m3.c2]
        ELSE [ok |-> FALSE, contestId |-> contestId, problemCode |-> code]

(***************************************************************************)
(* The construction of the submit URL in CFTool::submit.                   *)
(***************************************************************************)
\* parts[1].split("?")[0].split("#")[0]
problemIndex(parts) == Split(Split(parts[2], <<"?">>)[1], <<"#">>)[1]

\* targetUrl = parts[0] + "/submit/" + problemIndex
SplitRewrite(targetUrl) ==
    LET parts == Split(targetUrl, ProblemSep)
    IN  IF Len(parts) >= 2
        THEN parts[1] \o <<"/", "submit", "/">> \o problemIndex(parts)
        ELSE targetUrl

\* /problemset/problem/(\d+)/([A-Za-z0-9]+), unanchored
ProblemsetRewriteAt(s, j) ==
    LET pat == <<"/">> \o ProblemsetPath
    IN  IF StartsAt(s, j, pat) THEN ProblemsetTail(s, j + Len(pat)) ELSE NoMatch

CanonicalPrefix ==
    <<"https", ":", "/", "/", "codeforces", ".", "com", "/", "contest", "/">>

ProblemsetRewrite(targetUrl) ==
    LET hits == {j \in 1..Len(targetUrl) : ProblemsetRewriteAt(targetUrl, j).ok}
        match == IF hits = {} THEN NoMatch
                 ELSE ProblemsetRewriteAt(targetUrl, First(hits))
    IN  IF match.ok
        THEN CanonicalPrefix \o match.c1 \o <<"/", "submit", "/">> \o match.c2
        ELSE targetUrl

\* variant of rewrite: the group rule is tried before the problemset rule
rewrite_GroupFirst(url) ==
    IF Contains(url, <<"/", "contest", "/">>) /\ Contains(url, ProblemSep)
    THEN SplitRewrite(url)
    ELSE IF Contains(url, <<"/", "gym", "/">>) /\ Contains(url, ProblemSep)
    THEN SplitRewrite(url)
    ELSE IF Contains(url, <<"/", "group", "/">>) /\ Contains(url, ProblemSep)
    THEN SplitRewrite(url)
    ELSE IF Contains(url, <<"/">> \o ProblemsetPath)
    THEN ProblemsetRewrite(url)
    ELSE url

\* the rules of lines 78-110, an if / else-if chain
rewrite(url) ==
    IF Contains(url, <<"/", "contest", "/">>) /\ Contains(url, ProblemSep)
    THEN SplitRewrite(url)
    ELSE IF Contains(url, <<"/", "gym", "/">>) /\ Contains(url, ProblemSep)
    THEN SplitRewrite(url)
    ELSE IF Contains(url, <<"/">> \o ProblemsetPath)
    THEN ProblemsetRewrite(url)
    ELSE IF Contains(url, <<"/", "group", "/">>) /\ Contains(url, ProblemSep)
    THEN SplitRewrite(url)
    ELSE url

\* tr("Contest %1 Problem %2").arg(problemContestId).arg(problemCode)
Headline(contestId, code) ==
    <<"Contest", " ">> \o contestId \o <<" ", "Problem", " ">> \o code


(***************************************************************************)
(* Bounds and inputs                                                       *)
(***************************************************************************)
\* number of QProcess objects and automation processes that exist at once
MaxProcs == 2

\* source texts: empty, only whitespace, plain, and with whitespace around
Text == {<<>>, <<" ">>, <<"a">>, <<" ", "a", " ">>}
\* QFile::open succeeds or not; QTextStream::readAll gives the text
Files == {[readable |-> FALSE, text |-> <<>>]} \cup
         {[readable |-> TRUE, text |-> t] : t \in Text}

\* the files submit goes on with: readable, and not empty once trimmed
Scheme == <<"https", ":", "/", "/">>
Host == <<"codeforces", ".", "com", "/">>
UrlContest ==
    Scheme \o Host \o <<"contest", "/", "1", "4", "/", "problem", "/", "C", "1">>
UrlProblemset ==
    Scheme \o Host \o <<"problemset", "/", "problem", "/", "4", "/", "A">>
UrlOther == Scheme \o <<"example", ".", "com", "/", "A">>
Urls == {UrlContest, UrlProblemset, UrlOther}

\* parseCfUrl and the submit URL of every input URL, evaluated once and kept
\* as pairs <<url, result>>
ParsedUrls == {<<u, parseCfUrl(u, <<>>, <<>>)>> : u \in Urls}
TargetUrls == {<<u, rewrite(u)>> : u \in Urls}
ParsedUrl(url) == (CHOOSE p \in ParsedUrls : p[1] = url)[2]
TargetUrl(url) == (CHOOSE p \in TargetUrls : p[1] = url)[2]

(***************************************************************************)
(* The URLs that parseCfUrl and the construction of the submit URL are     *)
(* examined on: a front (scheme and host), a path, and a tail of further   *)
(* path segments with at most one "?" or "#" among them.                   *)
(***************************************************************************)
\* number of segments that follow the path
MaxTail == 3

Ids == {<<"4">>, <<"1", "4">>}
Codes == {<<"A">>, <<"C", "1">>}

Fronts ==
    {<<"https", ":", "/", "/">> \o Host,
     <<"http", ":", "/", "/">> \o Host,
     <<"https", ":", "/", "/", "www", ".">> \o Host,
     <<"https", ":", "/", "/", "example", ".", "com", "/">>}

\* the four documented shapes of a problem URL, a group URL of the problem
\* set, and two pages that are not a problem
Paths(n, X) ==
    {<<"contest", "/">> \o n \o <<"/", "problem", "/">> \o X,
     <<"gym", "/">> \o n \o <<"/", "problem", "/">> \o X,
     <<"problemset", "/", "problem", "/">> \o n \o <<"/">> \o X,
     <<"group", "/">> \o X \o <<"/", "contest", "/">> \o n
         \o <<"/", "problem", "/">> \o X,
     <<"group", "/">> \o X \o <<"/", "problemset", "/", "problem", "/">> \o n
         \o <<"/">> \o X,
     <<"contest", "/">> \o n,
     <<"problemset">>}

TailSeg == {"contest", "problem", "A", "4"}
TailMark == {"?", "#"}

\* k segments, each after its separator: "/" everywhere, but the mark at
\* position at (0: no mark)
RECURSIVE TailOf(_, _, _)
TailOf(segs, at, mark) ==
    IF segs = <<>> THEN <<>>
    ELSE <<IF at = 1 THEN mark ELSE "/", Head(segs)>>
         \o TailOf(Tail(segs), at - 1, mark)

\* a mark may also follow the last segment, or the path when k = 0
Tails ==
    UNION {{TailOf(segs, 0, "/") : segs \in [1..k -> TailSeg]}
           \cup {TailOf(segs, at, mark) \o (IF at = k + 1 THEN <<mark>> ELSE <<>>) :
                    segs \in [1..k -> TailSeg], at \in 1..(k + 1), mark \in TailMark}
           : k \in 0..MaxTail}

UrlSet ==
    {f \o p : f \in Fronts, p \in UNION {Paths(n, X) : n \in Ids, X \in Codes}}
    \cup {Scheme \o Host \o p \o t : p \in Paths(<<"1", "4">>, <<"C", "1">>), t \in Tails}

\* the branch of the #ifdef chain of automateSubmission that is compiled
Platforms == {"macos", "linux", "windows", "other"}

\* content of the system clipboard before the first submission
PriorClipboard == <<"prior">>

(***************************************************************************)
(* State                                                                   *)
(***************************************************************************)
VARIABLES
    platform,           \* compiled branch of automateSubmission
    showToast,          \* SettingsHelper::isCFShowToastMessages()
    xdotool,            \* "command -v xdotool" succeeds on the host
    problemContestId,   \* CFTool::problemContestId
    problemCode,        \* CFTool::problemCode
    clipboard,          \* QGuiApplication::clipboard()->text()
    browserAutomation,  \* CFTool::browserAutomation: 0 is nullptr, else a key of procs
    procs,              \* the QProcess objects that exist, with their OS process
    destroyed,          \* ~CFTool has run
    call,               \* the handler that ran last, with its inputs
    last,               \* what the handler that ran last did, in order
    urlInput,           \* the url argument that is examined on its own
    urlStage,           \* how far submit has come with urlInput
    urlParsed,          \* what parseCfUrl(urlInput, "", "") gave
    urlTarget,          \* targetUrl built from urlInput
    urlAgain            \* targetUrl built from urlTarget

\* the members of CFTool and its environment
toolVars == <<platform, showToast, xdotool, problemContestId, problemCode,
              clipboard, browserAutomation, procs, destroyed, call, last>>
\* the examination of one URL
urlVars == <<urlInput, urlStage, urlParsed, urlTarget, urlAgain>>

vars == <<toolVars, urlVars>>

(***************************************************************************)
(* Effects                                                                 *)
(***************************************************************************)
LogEv(sev, msg) == [op |-> "log", sev |-> sev, msg |-> msg]
ClipEv(text) == [op |-> "clipboard", text |-> text]
OpenEv(url, ok) == [op |-> "openUrl", url |-> url, ok |-> ok]
ToastEv(head, body) == [op |-> "toast", head |-> head, body |-> body]
KillEv(p) == [op |-> "kill", pid |-> p]
DeleteEv(p) == [op |-> "delete", pid |-> p]
StartEv(p, program) == [op |-> "start", pid |-> p, program |-> program]

\* variant of showToastMessage: the setting is not consulted
showToastMessage_Always(contestId, code, message) ==
    <<ToastEv(Headline(contestId, code), message)>>

\* CFTool::showToastMessage, with the members it reads
showToastMessage(contestId, code, message) ==
    IF showToast THEN <<ToastEv(Headline(contestId, code), message)>> ELSE <<>>

\* the lambda connected to QProcess::finished
finishedHandler(contestId, code, exitCode) ==
    CASE platform = "macos" ->
            IF exitCode = 0
            THEN <<LogEv("info", "Submitted")>>
                 \o showToastMessage(contestId, code, "Submitted! Check verdict")
            ELSE <<LogEv("warn", "CheckBrowser")>>
                 \o showToastMessage(contestId, code, "Check browser")
      [] platform \in {"linux", "windows"} ->
            <<LogEv("info", "Submitted")>>
            \o showToastMessage(contestId, code, "Submitted!")
      [] OTHER -> <<>>

\* the lambda connected to QProcess::errorOccurred (macOS branch only)
errorHandler ==
    IF platform = "macos" THEN <<LogEv("warn", "AutomationError")>> ELSE <<>>

\* what QProcess emits when its process has died: errorOccurred(Crashed)
\* first when it was terminated by a signal, then finished(exitCode, status)
diedSignals(contestId, code, exitCode, crashed) ==
    (IF crashed THEN errorHandler ELSE <<>>)
    \o finishedHandler(contestId, code, exitCode)

(***************************************************************************)
(* QProcess objects.  procs maps a handle to the object; an object that   *)
(* is deleted leaves procs, and its process is dead by then.               *)
(* procs[p].state is the state of the OS process: "running", "exited"      *)
(* (ended by itself, finished delivered) or "failed" (never started).      *)
(* errPending: the errorOccurred(FailedToStart) signal is queued.  url,    *)
(* contestId and code record the submission that created the process;      *)
(* reports counts the runs of its finished handler.                        *)
(***************************************************************************)
NewProcess(started, url, contestId, code) ==
    [state |-> IF started THEN "running" ELSE "failed",
     errPending |-> ~started,
     url |-> url, contestId |-> contestId, code |-> code,
     reports |-> 0]

\* new QProcess(this): a handle that no existing object has
NewHandle(ps) ==
    CHOOSE p \in 1..(Cardinality(DOMAIN ps) + 1) :
        p \notin DOMAIN ps /\ \A q \in 1..(p - 1) : q \in DOMAIN ps

Program ==
    CASE platform = "macos" -> "osascript"
      [] platform = "linux" -> "bash"
      [] platform = "windows" -> "powershell"
      [] OTHER -> "none"

\* "delete browserAutomation": ~QProcess kills a process that still runs and
\* waits for it; sig says whether the signals of that death still reach the
\* connected lambdas from inside the destructor.  A nonzero exit code (1)
\* stands for the code of a process terminated by a signal.
deleteProcess(p, ps, contestId, code, sig) ==
    LET told == ps[p].state = "running" /\ sig
    IN  [events |-> (IF told THEN diedSignals(contestId, code, 1, TRUE) ELSE <<>>)
                    \o <<DeleteEv(p)>>,
         procs |-> [q \in DOMAIN ps \ {p} |-> ps[q]]]

\* variant of killAndRelease: the previous process is neither killed nor deleted
killAndRelease_Leak(slot, ps, contestId, code, sig) ==
    [events |-> <<>>, procs |-> ps]

\* if (browserAutomation) { browserAutomation->kill(); delete browserAutomation; }
killAndRelease(slot, ps, contestId, code, sig) ==
    IF slot = 0 THEN [events |-> <<>>, procs |-> ps]
    ELSE LET del == deleteProcess(slot, ps, contestId, code, sig)
         IN  [events |-> <<KillEv(slot)>> \o del.events, procs |-> del.procs]

\* CFTool::automateSubmission
automateSubmission(slot, ps, contestId, code, url, started, sig) ==
    IF platform = "other"
    THEN [events |-> <<LogEv("info", "Manual")>>
                     \o showToastMessage(contestId, code, "Paste & Submit manually"),
          slot |-> slot, procs |-> ps]
    ELSE LET rel == killAndRelease(slot, ps, contestId, code, sig)
             p == NewHandle(ps)
             new == NewProcess(started, url, contestId, code)
         IN  [events |-> rel.events \o <<StartEv(p, Program)>>,
              slot |-> p,
              procs |-> [q \in DOMAIN rel.procs \cup {p} |->
                            IF q = p THEN new ELSE rel.procs[q]]]

\* variant of isEmptySource: sourceCode.isEmpty(), without trimmed()
isEmptySource_NoTrim(sourceCode) == sourceCode = <<>>

\* sourceCode.trimmed().isEmpty()
isEmptySource(sourceCode) == trimmed(sourceCode) = <<>>

\* variant of setText: the trimmed text is copied
setText_Trimmed(sourceCode) == trimmed(sourceCode)

\* clipboard->setText(sourceCode): the text the clipboard holds afterwards
setText(sourceCode) == sourceCode

\* variant of stageAndOpen: the browser is opened before the clipboard is set
stageAndOpen_OpenFirst(sourceCode, targetUrl, browserOpened) ==
    <<LogEv("info", "Opening"), OpenEv(targetUrl, browserOpened),
      ClipEv(setText(sourceCode)), LogEv("info", "Copied")>>

\* submit from the clipboard write to the return of QDesktopServices::openUrl
stageAndOpen(sourceCode, targetUrl, browserOpened) ==
    <<ClipEv(setText(sourceCode)), LogEv("info", "Copied"),
      LogEv("info", "Opening"), OpenEv(targetUrl, browserOpened)>>

\* variant of openOutcome: automateSubmission is called after the else branch too
openOutcome_AlwaysAutomate(browserOpened, contestId, code, url, started, sig) ==
    LET auto == automateSubmission(browserAutomation, procs, contestId,
                                   code, url, started, sig)
        said == IF browserOpened
                THEN <<LogEv("info", "BrowserOpened")>>
                     \o showToastMessage(contestId, code, "Auto-submitting...")
                ELSE <<LogEv("error", "BrowserFailed")>>
                     \o showToastMessage(contestId, code, "Failed to open browser")
    IN  [events |-> said \o auto.events, slot |-> auto.slot, procs |-> auto.procs]

\* submit after openUrl: if (browserOpened) { ... automateSubmission } else { ... }
openOutcome(browserOpened, contestId, code, url, started, sig) ==
    IF browserOpened
    THEN LET auto == automateSubmission(browserAutomation, procs, contestId,
                                        code, url, started, sig)
         IN  [events |-> <<LogEv("info", "BrowserOpened")>>
                         \o showToastMessage(contestId, code, "Auto-submitting...")
                         \o auto.events,
              slot |-> auto.slot, procs |-> auto.procs]
    ELSE [events |-> <<LogEv("error", "BrowserFailed")>>
                     \o showToastMessage(contestId, code, "Failed to open browser"),
          slot |-> browserAutomation, procs |-> procs]

\* CFTool::submit on the current state; the result is the new value of every
\* member it may assign and the effects in program order
submit(file, url, browserOpened, started, sig) ==
    LET \* parseCfUrl(url, problemContestId, problemCode): the members are
        \* passed by reference and keep their value when nothing matches
        parsed == ParsedUrl(url)
        contestId == IF parsed.ok THEN parsed.contestId ELSE problemContestId
        code == IF parsed.ok THEN parsed.problemCode ELSE problemCode
        sourceCode == file.text
        begin == <<LogEv("info", "Starting")>>
        return == [contestId |-> contestId, problemCode |-> code,
                   clipboard |-> clipboard, slot |-> browserAutomation,
                   procs |-> procs, events |-> begin]
    IN  IF ~file.readable
        THEN [return EXCEPT !.events = @ \o <<LogEv("error", "ReadFailed")>>]
        ELSE IF isEmptySource(sourceCode)
        THEN [return EXCEPT !.events = @ \o <<LogEv("error", "Empty")>>]
        ELSE LET out == openOutcome(browserOpened, contestId, code, url,
                                    started, sig)
             IN  [return EXCEPT
                    !.clipboard = setText(sourceCode),
                    !.slot = out.slot,
                    !.procs = out.procs,
                    !.events = @ \o stageAndOpen(sourceCode, TargetUrl(url),
                                                 browserOpened)
                                 \o out.events]

(***************************************************************************)
(* Actions: one per entry point of CFTool and per signal it is connected   *)
(* to.  All of them run on the GUI thread, so each runs to completion.     *)
(***************************************************************************)
NoFile == [readable |-> FALSE, text |-> <<>>]

\* the files submit goes on with: readable, and not empty once trimmed
GoodFiles == {f \in Files : f.readable /\ ~isEmptySource(f.text)}

\* the process of the slot that is alive when a handler is entered, or 0
LiveProcess ==
    IF browserAutomation \in DOMAIN procs /\ procs[browserAutomation].state = "running"
    THEN browserAutomation ELSE 0

Call(op, file, url, pid, exitCode, crashed) ==
    [op |-> op, file |-> file, url |-> url, pid |-> pid, exitCode |-> exitCode,
     crashed |-> crashed, live |-> LiveProcess]

\* how the automation script can end: <<exit code, terminated by a signal>>.
\* Without xdotool the Linux script ends with "echo", whose status is 0.
ExitOutcomes ==
    IF platform = "linux" /\ ~xdotool
    THEN {<<0, FALSE>>, <<1, TRUE>>}
    ELSE {<<0, FALSE>>, <<1, FALSE>>, <<1, TRUE>>}

Init ==
    /\ platform \in Platforms
    /\ showToast \in BOOLEAN
    /\ xdotool \in (IF platform = "linux" THEN BOOLEAN ELSE {FALSE})
    /\ problemContestId = <<>>
    /\ problemCode = <<>>
    /\ clipboard = PriorClipboard
    /\ browserAutomation = 0
    /\ procs = <<>>
    /\ destroyed = FALSE
    /\ call = [op |-> "new", file |-> NoFile, url |-> <<>>, pid |-> 0,
               exitCode |-> 0, crashed |-> FALSE, live |-> 0]
    /\ last = <<>>
    /\ urlInput = <<>>
    /\ urlStage = "none"
    /\ urlParsed = parseCfUrl(<<>>, <<>>, <<>>)
    /\ urlTarget = <<>>
    /\ urlAgain = <<>>

\* CFTool::submit(filePath, url)
Submit ==
    \* an input that the call does not consult is listed once, as FALSE
    \E file \in Files, url \in Urls :
    \E browserOpened \in IF file \in GoodFiles THEN BOOLEAN ELSE {FALSE} :
    \E started \in IF browserOpened /\ platform # "other" THEN BOOLEAN ELSE {FALSE} :
    \E sig \in IF browserOpened /\ platform # "other" /\ LiveProcess # 0
                THEN BOOLEAN ELSE {FALSE} :
        \E r \in {submit(file, url, browserOpened, started, sig)} :
            /\ ~destroyed
            /\ Cardinality(DOMAIN r.procs) <= MaxProcs
            /\ problemContestId' = r.contestId
            /\ problemCode' = r.problemCode
            /\ clipboard' = r.clipboard
            /\ browserAutomation' = r.slot
            /\ procs' = r.procs
            /\ last' = r.events
            /\ call' = Call("submit", file, url, 0, 0, FALSE)
            /\ UNCHANGED <<platform, showToast, xdotool, destroyed>>
            /\ UNCHANGED urlVars

\* the automation process ends by itself and the event loop delivers
\* QProcess::finished (after errorOccurred(Crashed) when it crashed)
OnFinished ==
    \E out \in ExitOutcomes :
        LET p == browserAutomation
        IN  /\ ~destroyed
            /\ p # 0
            /\ procs[p].state = "running"
            /\ procs' = [procs EXCEPT ![p].state = "exited", ![p].reports = @ + 1]
            /\ last' = diedSignals(problemContestId, problemCode, out[1], out[2])
            /\ call' = Call("finished", NoFile, <<>>, p, out[1], out[2])
            /\ UNCHANGED <<platform, showToast, xdotool, problemContestId,
                           problemCode, clipboard, browserAutomation, destroyed>>
            /\ UNCHANGED urlVars

\* the event loop delivers errorOccurred(FailedToStart) of a process that
\* could not be started
OnErrorOccurred ==
    LET p == browserAutomation
    IN  /\ ~destroyed
        /\ p # 0
        /\ procs[p].errPending
        /\ procs' = [procs EXCEPT ![p].errPending = FALSE]
        /\ last' = errorHandler
        /\ call' = Call("error", NoFile, <<>>, p, 0, FALSE)
        /\ UNCHANGED <<platform, showToast, xdotool, problemContestId,
                       problemCode, clipboard, browserAutomation, destroyed>>
        /\ UNCHANGED urlVars

\* CFTool::~CFTool (CFToolProcess is never assigned, so it is nullptr)
Destroy ==
    \E sig \in BOOLEAN :
        LET del == IF browserAutomation # 0
                   THEN deleteProcess(browserAutomation, procs, problemContestId,
                                      problemCode, sig)
                   ELSE [events |-> <<>>, procs |-> procs]
        IN  /\ ~destroyed
            /\ destroyed' = TRUE
            /\ browserAutomation' = 0
            /\ procs' = del.procs
            /\ last' = del.events
            /\ call' = Call("destroy", NoFile, <<>>, browserAutomation, 0, FALSE)
            /\ UNCHANGED <<platform, showToast, xdotool, problemContestId,
                           problemCode, clipboard>>
            /\ UNCHANGED urlVars

Next == Submit \/ OnFinished \/ OnErrorOccurred \/ Destroy

Spec == Init /\ [][Next]_vars

TypeOK ==
    /\ platform \in Platforms
    /\ browserAutomation \in {0} \cup DOMAIN procs
    /\ Cardinality(DOMAIN procs) <= MaxProcs

(***************************************************************************)
(* The URL handling of submit on its own: one URL of UrlSet goes through   *)
(* the parseCfUrl call of line 52 and the construction of targetUrl of     *)
(* lines 75-110; then the URL that was opened is submitted in its turn.    *)
(***************************************************************************)
UrlInit ==
    /\ platform = "other"
    /\ showToast = FALSE
    /\ xdotool = FALSE
    /\ problemContestId = <<>>
    /\ problemCode = <<>>
    /\ clipboard = PriorClipboard
    /\ browserAutomation = 0
    /\ procs = <<>>
    /\ destroyed = FALSE
    /\ call = [op |-> "new", file |-> NoFile, url |-> <<>>, pid |-> 0,
               exitCode |-> 0, crashed |-> FALSE, live |-> 0]
    /\ last = <<>>
    /\ urlInput \in UrlSet
    /\ urlStage = "input"
    /\ urlParsed = parseCfUrl(<<>>, <<>>, <<>>)
    /\ urlTarget = <<>>
    /\ urlAgain = <<>>

\* parseCfUrl(url, contestId, problemCode) on empty identifiers
ParseUrl ==
    /\ urlStage = "input"
    /\ urlStage' = "parsed"
    /\ urlParsed' = parseCfUrl(urlInput, <<>>, <<>>)
    /\ UNCHANGED <<toolVars, urlInput, urlTarget, urlAgain>>

\* QString targetUrl = url; ... the four rewrite rules
RewriteUrl ==
    /\ urlStage = "parsed"
    /\ urlStage' = "rewritten"
    /\ urlTarget' = rewrite(urlInput)
    /\ UNCHANGED <<toolVars, urlInput, urlParsed, urlAgain>>

\* submit is called with the URL it opened before
RewriteAgain ==
    /\ urlStage = "rewritten"
    /\ urlStage' = "again"
    /\ urlAgain' = rewrite(urlTarget)
    /\ UNCHANGED <<toolVars, urlInput, urlParsed, urlTarget>>

UrlNext == ParseUrl \/ RewriteUrl \/ RewriteAgain

UrlSpec == UrlInit /\ [][UrlNext]_vars

UrlTypeOK ==
    /\ urlStage \in {"input", "parsed", "rewritten", "again"}
    /\ urlInput \in UrlSet

(***************************************************************************)
(* Vocabulary of the properties                                            *)
(***************************************************************************)
\* positions in the effects of the last handler that have the given kind
Idx(op) == {i \in 1..Len(last) : last[i].op = op}

\* the last handler wrote this message to the message log
Logged(sev, msg) == \E i \in Idx("log") : last[i].sev = sev /\ last[i].msg = msg

\* the last handler emitted requestToastMessage with this body
Toasted(body) == \E i \in Idx("toast") : last[i].body = body

\* the automation processes that are alive
Alive == {p \in DOMAIN procs : procs[p].state = "running"}

IsSubmit == call.op = "submit"
Aborted == IsSubmit /\ (~call.file.readable \/ trimmed(call.file.text) = <<>>)
OpenFailed == IsSubmit /\ \E j \in Idx("openUrl") : ~last[j].ok
OpenSucceeded == IsSubmit /\ \E j \in Idx("openUrl") : last[j].ok

SuccessBodies == {"Submitted! Check verdict", "Submitted!"}

(***************************************************************************)
(* C1                                                                      *)
(***************************************************************************)
\* C1: at most one automation process is alive in every state, and a submit
\* that starts a process while the process of an earlier submission is alive
\* kills that process and deletes its QProcess before it starts the new one.
C1_AtMostOneAutomationProcess ==
    /\ Cardinality(Alive) <= 1
    /\ \A k \in Idx("start") :
          call.live # 0 =>
             \E i \in Idx("kill"), j \in Idx("delete") :
                /\ i < j /\ j < k
                /\ last[i].pid = call.live
                /\ last[j].pid = call.live
                /\ last[k].pid # call.live

\* a second submission started a process while the first one's was alive
C1_Witness ==
    /\ IsSubmit /\ call.live # 0 /\ Idx("start") # {}
    /\ Cardinality(Alive) = 1
    /\ call.live \notin Alive

(***************************************************************************)
(* C2                                                                      *)
(***************************************************************************)
\* C2: after every submit that was called while the process of an earlier
\* submission was alive, that process is no longer alive, whatever the outcome
\* of the new submission.
C2_EarlierSessionAlwaysTerminated ==
    IsSubmit /\ call.live # 0 => call.live \notin Alive

(***************************************************************************)
(* C3                                                                      *)
(***************************************************************************)
\* C3: in every submission the clipboard is set to the text read from the file
\* before openUrl is called, openUrl is called at most once, and a process is
\* started only after an openUrl that returned true.
C3_StepOrder ==
    IsSubmit =>
       /\ Cardinality(Idx("openUrl")) <= 1
       /\ \A j \in Idx("openUrl") :
             \E i \in Idx("clipboard") : i < j /\ last[i].text = call.file.text
       /\ \A k \in Idx("start") :
             \E j \in Idx("openUrl") : j < k /\ last[j].ok
       /\ OpenFailed => Idx("start") = {}

\* a submission of a text with whitespace around went through all three steps
C3_Witness ==
    /\ IsSubmit /\ Idx("start") # {}
    /\ call.file.text = <<" ", "a", " ">>

(***************************************************************************)
(* C4                                                                      *)
(***************************************************************************)
\* C4: a submit whose file cannot be opened, or whose text is empty once
\* trimmed, logs an error and does nothing else: no clipboard write, no
\* openUrl, no process start or kill, no toast.
C4_AbortDoesNothingElse ==
    Aborted =>
       /\ IF call.file.readable THEN Logged("error", "Empty")
                                ELSE Logged("error", "ReadFailed")
       /\ Idx("clipboard") = {} /\ Idx("openUrl") = {} /\ Idx("toast") = {}
       /\ Idx("start") = {} /\ Idx("kill") = {} /\ Idx("delete") = {}
       /\ last[Len(last)].op = "log" /\ last[Len(last)].sev = "error"

\* a file of whitespace only was submitted while toasts are shown
C4_Witness ==
    /\ Aborted /\ showToast
    /\ call.file.readable /\ call.file.text = <<" ">>

(***************************************************************************)
(* C5                                                                      *)
(***************************************************************************)
\* C5: a submit that aborts on an unreadable or empty file leaves the stored
\* contest id and problem code, the clipboard and the process slot as they were.
C5_AbortChangesNoState ==
    [][Aborted' =>
          /\ problemContestId' = problemContestId
          /\ problemCode' = problemCode
          /\ clipboard' = clipboard
          /\ browserAutomation' = browserAutomation
          /\ procs' = procs]_vars

(***************************************************************************)
(* C6                                                                      *)
(***************************************************************************)
\* C6: when a process completes, exit code 0 gives the success log message and
\* success toast, every other exit code the "check browser" warning and toast,
\* on every platform.
C6_NotificationFollowsExitCode ==
    call.op = "finished" =>
       IF call.exitCode = 0
       THEN /\ Logged("info", "Submitted")
            /\ ~Logged("warn", "CheckBrowser")
            /\ showToast => \E b \in SuccessBodies : Toasted(b)
       ELSE /\ Logged("warn", "CheckBrowser")
            /\ ~Logged("info", "Submitted")
            /\ showToast => Toasted("Check browser")

(***************************************************************************)
(* C7                                                                      *)
(***************************************************************************)
\* no automation tool on the host: no strategy is compiled in, or the Linux
\* script finds no xdotool
ToolUnavailable == platform = "other" \/ (platform = "linux" /\ ~xdotool)

\* C7: when no automation tool is available, a submit whose openUrl succeeded
\* gives the manual instruction, no process is ever started and no success
\* notification is ever emitted.
C7_NoToolMeansManual ==
    ToolUnavailable =>
       /\ Idx("start") = {}
       /\ procs = <<>>
       /\ ~Logged("info", "Submitted")
       /\ \A b \in SuccessBodies : ~Toasted(b)
       /\ OpenSucceeded =>
             /\ Logged("info", "Manual")
             /\ showToast => Toasted("Paste & Submit manually")

(***************************************************************************)
(* C8                                                                      *)
(***************************************************************************)
\* C8: a submit whose openUrl failed logs an error, emits the failure toast
\* exactly when toasts are shown, and ends there: automateSubmission is not
\* entered, so nothing is killed, deleted or started and the slot is kept.
C8_OpenFailureStops ==
    [][OpenFailed' =>
          /\ Logged("error", "BrowserFailed")'
          /\ showToast <=> Toasted("Failed to open browser")'
          /\ (Idx("start") = {} /\ Idx("kill") = {} /\ Idx("delete") = {})'
          /\ ~Logged("info", "Manual")'
          /\ browserAutomation' = browserAutomation
          /\ procs' = procs]_vars

\* openUrl failed while a process was alive and toasts are shown
C8_Witness ==
    /\ OpenFailed /\ showToast /\ call.live # 0
    /\ Toasted("Failed to open browser")

(***************************************************************************)
(* C9                                                                      *)
(***************************************************************************)
\* the headline for the identifiers parsed from a URL, empty when none match
ParsedHeadline(url) ==
    Headline(ParsedUrl(url).contestId, ParsedUrl(url).problemCode)

\* C9: the headline of every toast of a submission, those of submit and the
\* one of the completion of its process, holds the identifiers parsed from
\* that submission's URL, and empty identifiers when the URL is not recognised.
C9_HeadlineFromOwnUrl ==
    /\ IsSubmit =>
          \A i \in Idx("toast") :
             last[i].body \notin SuccessBodies \cup {"Check browser"}
                => last[i].head = ParsedHeadline(call.url)
    /\ call.op = "finished" =>
          \A i \in Idx("toast") : last[i].head = ParsedHeadline(procs[call.pid].url)

(***************************************************************************)
(* C10                                                                     *)
(***************************************************************************)
\* C10: every submit of a readable file that is not empty once trimmed leaves
\* the clipboard holding exactly the text read, whether openUrl succeeded or
\* not, and no other step changes the clipboard; so the clipboard always holds
\* the text of the most recent such submission.
C10_ClipboardHoldsLastSource ==
    [][clipboard' = IF IsSubmit' /\ ~Aborted' THEN call'.file.text
                    ELSE clipboard]_vars

\* openUrl failed and the clipboard holds the text with its whitespace
C10_Witness ==
    /\ OpenFailed
    /\ clipboard = <<" ", "a", " ">>
    /\ call.file.text = clipboard

(***************************************************************************)
(* Vocabulary of the URL properties                                        *)
(***************************************************************************)
Parsed == urlStage \in {"parsed", "rewritten", "again"}
Rewritten == urlStage \in {"rewritten", "again"}

IsDigits(s) == s # <<>> /\ \A i \in 1..Len(s) : s[i] \in Digit
IsAlnum(s) == s # <<>> /\ \A i \in 1..Len(s) : s[i] \in Alnum

\* s ends with suffix
EndsWith(s, suffix) ==
    Len(suffix) <= Len(s) /\ SubSeq(s, Len(s) - Len(suffix) + 1, Len(s)) = suffix

\* the URL a claim speaks of, given by its parts
ContestUrl(scheme, n, X) ==
    <<scheme, ":", "/", "/", "codeforces", ".", "com", "/", "contest", "/">>
    \o n \o <<"/", "problem", "/">> \o X
ContestSubmitUrl(scheme, n, X) ==
    <<scheme, ":", "/", "/", "codeforces", ".", "com", "/", "contest", "/">>
    \o n \o <<"/", "submit", "/">> \o X

\* the ways to cut s into scheme://codeforces.com/contest/{n}/problem/{X}
ContestCuts(s) ==
    {c \in (11..Len(s)) \X (11..Len(s)) :
        /\ c[1] < c[2]
        /\ IsDigits(SubSeq(s, 11, c[1]))
        /\ IsAlnum(SubSeq(s, c[2], Len(s)))
        /\ s = ContestUrl(s[1], SubSeq(s, 11, c[1]), SubSeq(s, c[2], Len(s)))}

(***************************************************************************)
(* C11                                                                     *)
(***************************************************************************)
\* C11: for every URL scheme://codeforces.com/contest/{n}/problem/{X} with n
\* digits and X alphanumeric, parseCfUrl returns true with contestId = n and
\* problemCode = X, and the submit URL built from it is
\* scheme://codeforces.com/contest/{n}/submit/{X}.
C11_ContestUrlParsedAndRewritten ==
    \A c \in ContestCuts(urlInput) :
        LET n == SubSeq(urlInput, 11, c[1])
            X == SubSeq(urlInput, c[2], Len(urlInput))
        IN  /\ Parsed => /\ urlParsed.ok
                         /\ urlParsed.contestId = n
                         /\ urlParsed.problemCode = X
            /\ Rewritten => urlTarget = ContestSubmitUrl(urlInput[1], n, X)

\* http://codeforces.com/contest/14/problem/C1 has been parsed and rewritten
C11_Witness ==
    /\ Rewritten
    /\ urlInput = ContestUrl("http", <<"1", "4">>, <<"C", "1">>)
    /\ ContestCuts(urlInput) # {}
    /\ urlParsed.problemCode = <<"C", "1">>

(***************************************************************************)
(* C12                                                                     *)
(***************************************************************************)
\* scheme://host, the host being names separated by dots
IsFront(s) ==
    /\ Len(s) >= 5
    /\ s[1] \in Word
    /\ SubSeq(s, 2, 4) = <<":", "/", "/">>
    /\ \A i \in 5..Len(s) : s[i] \in Alnum \cup {"."}
    /\ EndsWith(s, <<"codeforces", ".", "com">>)

\* nothing, or a query or fragment
IsTrailer(s) == s = <<>> \/ s[1] \in {"?", "#"}

\* the ways to cut s into
\* front/problemset/problem/{n}/{X} and a query or fragment: <<start of the
\* path, end of n, end of X>>
ProblemsetCuts(s) ==
    {c \in (1..Len(s)) \X (1..Len(s)) \X (1..Len(s)) :
        /\ c[1] < c[2] /\ c[2] + 1 < c[3]
        /\ IsFront(SubSeq(s, 1, c[1] - 1))
        /\ StartsAt(s, c[1], <<"/">> \o ProblemsetPath)
        /\ c[1] + 5 <= c[2]
        /\ IsDigits(SubSeq(s, c[1] + 5, c[2]))
        /\ s[c[2] + 1] = "/"
        /\ IsAlnum(SubSeq(s, c[2] + 2, c[3]))
        /\ IsTrailer(SubSeq(s, c[3] + 1, Len(s)))}

\* C12: for every problemset URL .../problemset/problem/{n}/{X}, whatever its
\* scheme, host prefix, query or fragment, the submit URL built from it is
\* exactly https://codeforces.com/contest/{n}/submit/{X}.
C12_ProblemsetUrlCanonical ==
    Rewritten =>
       \A c \in ProblemsetCuts(urlInput) :
           urlTarget = ContestSubmitUrl("https",
                                        SubSeq(urlInput, c[1] + 5, c[2]),
                                        SubSeq(urlInput, c[2] + 2, c[3]))

(***************************************************************************)
(* C13                                                                     *)
(***************************************************************************)
\* C13: for every URL on which parseCfUrl returns false, the submit URL built
\* from it is the URL itself.
C13_UnparsedUrlUnchanged ==
    Rewritten /\ ~urlParsed.ok => urlTarget = urlInput

(***************************************************************************)
(* C14                                                                     *)
(***************************************************************************)
\* C14: the construction of the submit URL is idempotent: applied to its own
\* output it returns that output, for every input URL.
C14_RewriteIdempotent ==
    urlStage = "again" => urlAgain = urlTarget

(***************************************************************************)
(* C15                                                                     *)
(***************************************************************************)
\* the messages the last handler wrote to the message log, in order
LogsOfLast == [i \in 1..Cardinality(Idx("log")) |->
                 LET k == CHOOSE k \in Idx("log") :
                             Cardinality({m \in Idx("log") : m <= k}) = i
                 IN  <<last[k].sev, last[k].msg>>]

\* the messages of a process that is killed while it runs, when its signals
\* still reach the handlers
KilledLogs ==
    CASE platform = "macos" ->
            <<<<"warn", "AutomationError">>, <<"warn", "CheckBrowser">>>>
      [] platform \in {"linux", "windows"} -> <<<<"info", "Submitted">>>>
      [] OTHER -> <<>>

\* the message logs a handler may write, told from its inputs and from what it
\* did besides; the toast setting is not among them
LogsWithoutSetting ==
    LET kill == IF call.live # 0 THEN {<<>>, KilledLogs} ELSE {<<>>}
    IN  CASE call.op = "submit" ->
               IF ~call.file.readable
               THEN {<<<<"info", "Starting">>, <<"error", "ReadFailed">>>>}
               ELSE IF trimmed(call.file.text) = <<>>
               THEN {<<<<"info", "Starting">>, <<"error", "Empty">>>>}
               ELSE IF OpenFailed
               THEN {<<<<"info", "Starting">>, <<"info", "Copied">>,
                       <<"info", "Opening">>, <<"error", "BrowserFailed">>>>}
               ELSE IF platform = "other"
               THEN {<<<<"info", "Starting">>, <<"info", "Copied">>,
                       <<"info", "Opening">>, <<"info", "BrowserOpened">>,
                       <<"info", "Manual">>>>}
               ELSE {<<<<"info", "Starting">>, <<"info", "Copied">>,
                       <<"info", "Opening">>, <<"info", "BrowserOpened">>>> \o k :
                       k \in kill}
          [] call.op = "finished" ->
               IF platform = "macos"
               THEN {(IF call.crashed THEN <<<<"warn", "AutomationError">>>> ELSE <<>>)
                     \o (IF call.exitCode = 0 THEN <<<<"info", "Submitted">>>>
                         ELSE <<<<"warn", "CheckBrowser">>>>)}
               ELSE {<<<<"info", "Submitted">>>>}
          [] call.op = "error" ->
               IF platform = "macos" THEN {<<<<"warn", "AutomationError">>>>}
               ELSE {<<>>}
          [] call.op = "destroy" -> kill
          [] OTHER -> {<<>>}

\* C15: when the toast setting is false no handler emits a toast, and the
\* messages every handler writes to the log are the same whatever the setting.
C15_SettingSilencesToastsOnly ==
    /\ ~showToast => Idx("toast") = {}
    /\ LogsOfLast \in LogsWithoutSetting

\* with toasts switched off, a process ended and its completion was logged
C15_Witness ==
    /\ ~showToast
    /\ call.op = "finished"
    /\ Logged("info", "Submitted")
    /\ Idx("toast") = {}

(***************************************************************************)
(* C16                                                                     *)
(***************************************************************************)
\* whether a rule of the rewriter applies to a URL, and what it yields
RuleApplies(rule, s) ==
    CASE rule = "contest" ->
            Contains(s, <<"/", "contest", "/">>) /\ Contains(s, ProblemSep)
      [] rule = "gym" ->
            Contains(s, <<"/", "gym", "/">>) /\ Contains(s, ProblemSep)
      [] rule = "group" ->
            Contains(s, <<"/", "group", "/">>) /\ Contains(s, ProblemSep)
      [] rule = "problemset" -> Contains(s, <<"/">> \o ProblemsetPath)

RuleYields(rule, s) ==
    IF rule = "problemset" THEN ProblemsetRewrite(s) ELSE SplitRewrite(s)

\* the output of the first rule of the order that applies, else the input
ByPriority(order, s) ==
    LET hits == {i \in 1..Len(order) : RuleApplies(order[i], s)}
    IN  IF hits = {} THEN s ELSE RuleYields(order[First(hits)], s)

\* the rules that apply to the URL under examination
Applicable ==
    {rule \in {"contest", "gym", "group", "problemset"} :
        RuleApplies(rule, urlInput)}

\* C16 as stated: the rules are tried in the order contest, gym, group,
\* problemset, and the first that applies determines the submit URL.
C16_PriorityGroupBeforeProblemset ==
    Rewritten =>
       urlTarget = ByPriority(<<"contest", "gym", "group", "problemset">>, urlInput)

\* C16, amended: the rules are tried in the order contest, gym, problemset,
\* group, and the first that applies determines the submit URL; a URL with
\* both '/group/' and '/problemset/problem/' gets the canonical contest URL.
C16_PriorityProblemsetBeforeGroup ==
    Rewritten =>
       urlTarget = ByPriority(<<"contest", "gym", "problemset", "group">>, urlInput)

\* a URL to which the group rule and the problemset rule apply was rewritten
\* by the problemset rule
C16_Witness ==
    /\ Rewritten
    /\ Applicable = {"group", "problemset"}
    /\ urlTarget = ContestSubmitUrl("https", <<"1", "4">>, <<"C", "1">>)
    /\ urlTarget # SplitRewrite(urlInput)

(***************************************************************************)
(* C17                                                                     *)
(***************************************************************************)
\* the completion reports (success or warning) the last handler wrote
CompletionReports ==
    {i \in Idx("log") :
        last[i].msg \in {"Submitted", "CheckBrowser", "AutomationError"}}

\* C17: every automation process is reported exactly once: once when it ends
\* by itself, crashed or not, once when it could not be started, once when it
\* is killed while it runs, and not again when its QProcess is deleted later.
C17_OneCompletionReportPerProcess ==
    /\ call.op \in {"finished", "error"} => Cardinality(CompletionReports) = 1
    /\ Idx("delete") # {} =>
          Cardinality(CompletionReports) = IF call.live # 0 THEN 1 ELSE 0

(***************************************************************************)
(* C18                                                                     *)
(***************************************************************************)
\* The event loop delivers every queued signal, and an automation script
\* that runs comes to its end.
LiveSpec == Spec /\ WF_vars(OnFinished) /\ WF_vars(OnErrorOccurred)

\* the last handler was a submit that spawned process p
Spawned(p) == IsSubmit /\ \E k \in Idx("start") : last[k].pid = p

\* the last handler reported the end of process p: its completion callback
\* ran, or it was killed and its signals reached the callback
Reported(p) ==
    /\ CompletionReports # {}
    /\ \/ call.op \in {"finished", "error"} /\ call.pid = p
       \/ call.live = p /\ \E j \in Idx("delete") : last[j].pid = p

\* a submit that ended in Failed, with its error message
FailedState ==
    /\ Aborted \/ OpenFailed
    /\ \E i \in Idx("log") : last[i].sev = "error"

\* a submit that ended in Done by the manual fallback
ManualDone == OpenSucceeded /\ Logged("info", "Manual")

\* C18: every submit ends in Failed, in Done by manual fallback, or spawns a
\* process; and every spawned process is eventually reported as completed,
\* unless a later submission or the destructor removes it first.
C18_EverySubmissionTerminates ==
    /\ [](IsSubmit => FailedState \/ ManualDone \/ \E p \in 1..MaxProcs : Spawned(p))
    /\ \A p \in 1..MaxProcs :
          Spawned(p) ~> (Reported(p) \/ p \notin DOMAIN procs)

(***************************************************************************)
(* C19                                                                     *)
(***************************************************************************)
\* C19: the toast of the completion of a process has in its headline the
\* contest id and problem code that the submission that spawned the process
\* worked with, whatever submit calls came between spawn and completion.
C19_CompletionHeadlineOfSpawner ==
    call.op = "finished" =>
       \A i \in Idx("toast") :
          last[i].head = Headline(procs[call.pid].contestId, procs[call.pid].code)

(***************************************************************************)
(* C20                                                                     *)
(***************************************************************************)
\* C20: for every URL on which parseCfUrl succeeds with (contestId,
\* problemCode), the submit URL built from it ends in
\* /{contestId}/submit/{problemCode}.
C20_TargetNamesParsedProblem ==
    Rewritten /\ urlParsed.ok =>
       EndsWith(urlTarget, <<"/">> \o urlParsed.contestId
                           \o <<"/", "submit", "/">> \o urlParsed.problemCode)

====
